---- MODULE Spec2Model ----
(***************************************************************************)
(* fast-keyboard-sounds: model of src/main.rs.                             *)
(*                                                                         *)
(* main() builds an output stream from the configuration, loads the four   *)
(* sample pools, refuses to start when one of them is empty, and then      *)
(* hands a callback to rdev::listen.  The callback is the dispatch engine: *)
(* it locks the key state map, matches on the event type, and for a        *)
(* triggering event draws a sample and calls play_raw(..).unwrap() before  *)
(* it records the new key state.                                           *)
(***************************************************************************)
EXTENDS Integers, Sequences, FiniteSets, TLC

\* ------------------------------------------------------------------ bounds
MaxEvents == 4
MaxPool == 1

\* ------------------------------------------------------- input domains
Keys == {"KeyA", "KeyB"}
Buttons == {"Left"}
OtherKinds == {"MouseMove"}

\* Option<T>: None is the empty set, Some(v) the singleton.
None == {}
Some(v) == {v}
unwrap(o) == CHOOSE v \in o : TRUE

\* Strings that the code lower-cases are sequences of characters.
to_lowercase_char(c) ==
    CASE c = "A" -> "a"
      [] c = "F" -> "f"
      [] c = "I" -> "i"
      [] c = "O" -> "o"
      [] c = "P" -> "p"
      [] c = "S" -> "s"
      [] c = "U" -> "u"
      [] c = "W" -> "w"
      [] OTHER -> c

to_lowercase(s) == [i \in DOMAIN s |-> to_lowercase_char(s[i])]

HostIds == { <<"a","s","i","o">>, <<"w","a","s","a","p","i">> }

SampleFormats ==
    { <<"i","8">>, <<"i","1","6">>, <<"i","3","2">>, <<"i","6","4">>,
      <<"u","8">>, <<"u","1","6">>, <<"u","3","2">>, <<"u","6","4">>,
      <<"f","3","2">>, <<"f","6","4">> }

default_config ==
    [use_default |-> TRUE, host |-> None, device_name |-> None,
     num_channels |-> None, sample_rate |-> None, buffer_size |-> None,
     format |-> None]

ExplicitConfig ==
    [use_default |-> FALSE, host |-> Some(<<"A","S","I","O">>),
     device_name |-> Some("Speakers"), num_channels |-> Some(2),
     sample_rate |-> Some(48000), buffer_size |-> Some(512),
     format |-> Some(<<"F","3","2">>)]

\* The configurations read from ./config.json that the model explores.
Configs ==
    { default_config,
      ExplicitConfig,
      [ExplicitConfig EXCEPT !.host = None],
      [ExplicitConfig EXCEPT !.host = Some(<<"a","l","s","a">>)],
      [ExplicitConfig EXCEPT !.device_name = None],
      [ExplicitConfig EXCEPT !.num_channels = None],
      [ExplicitConfig EXCEPT !.sample_rate = None],
      [ExplicitConfig EXCEPT !.buffer_size = None],
      [ExplicitConfig EXCEPT !.format = None],
      [ExplicitConfig EXCEPT !.format = Some(<<"i","2","4">>)] }

\* The output devices the host may enumerate.
DeviceLists == { <<>>, <<"Speakers">>, <<"Headset">> }

VARIABLES
    pc,                 \* where main() is
    config,             \* the Config read at startup
    stream_handle,      \* the output stream handle, "none" until built
    key_down_sounds,    \* the four sample pools (Vec of buffers)
    key_up_sounds,
    mouse_down_sounds,
    mouse_up_sounds,
    key_states,         \* ListenState.key_states: HashMap<Key, bool>
    delivered,          \* events the listener has passed to the callback
    dispatched,         \* events the callback has matched on, with the entry it found
    requests,           \* play_raw calls received by the output sink
    sound,              \* the buffer of the latest play_raw call
    output,             \* error!/println!/panic messages written so far
    listen_state_lock,  \* the Mutex around ListenState: "free", "held" or "poisoned"
    steps               \* what the latest callback invocation did, in order

vars == <<pc, config, stream_handle, key_down_sounds, key_up_sounds,
          mouse_down_sounds, mouse_up_sounds, key_states, delivered,
          dispatched, requests, sound, output, listen_state_lock, steps>>

pools == <<key_down_sounds, key_up_sounds, mouse_down_sounds, mouse_up_sounds>>

\* HashMap::new()
new == [k \in {} |-> FALSE]

\* HashMap::get_mut
get_mut(ks, key) == IF key \in DOMAIN ks THEN Some(ks[key]) ELSE None

\* HashMap::insert
insert(ks, key, value) ==
    [k \in (DOMAIN ks) \cup {key} |-> IF k = key THEN value ELSE ks[k]]

Init ==
    /\ pc = "stream"
    /\ config \in Configs
    /\ stream_handle = "none"
    /\ key_down_sounds = <<>>
    /\ key_up_sounds = <<>>
    /\ mouse_down_sounds = <<>>
    /\ mouse_up_sounds = <<>>
    /\ key_states = new
    /\ delivered = <<>>
    /\ dispatched = <<>>
    /\ requests = <<>>
    /\ sound = "none"
    /\ output = <<>>
    /\ listen_state_lock = "free"
    /\ steps = <<>>

\* --------------------------------------------------------------- startup

\* OutputStreamError that accepts any sample format string.
OutputStreamError_AnyFormat(cfg, host_ok, devices, open_ok) ==
    IF cfg.use_default
    THEN IF open_ok THEN "" ELSE "try_default failed"
    ELSE IF cfg.host = None THEN "Host not specified"
    ELSE IF to_lowercase(unwrap(cfg.host)) \notin HostIds THEN "Invalid host"
    ELSE IF ~host_ok THEN "host unavailable"
    ELSE IF devices # <<>> /\ cfg.device_name = None THEN "Device name not specified"
    ELSE IF \A i \in DOMAIN devices : devices[i] # unwrap(cfg.device_name)
         THEN "Couldn't find device"
    ELSE IF cfg.buffer_size = None THEN "Buffer size not specified"
    ELSE IF cfg.num_channels = None THEN "Number of channels not specified"
    ELSE IF cfg.sample_rate = None THEN "Sample rate not specified"
    ELSE IF cfg.format = None THEN "Sample format not specifed"
    ELSE IF open_ok THEN "" ELSE "try_from_device_config failed"

\* The first failure of the output stream construction, "" when it succeeds.
\* host_ok, devices and open_ok are the answers of the audio host.
OutputStreamError(cfg, host_ok, devices, open_ok) ==
    IF cfg.use_default
    THEN IF open_ok THEN "" ELSE "try_default failed"
    ELSE IF cfg.host = None THEN "Host not specified"
    ELSE IF to_lowercase(unwrap(cfg.host)) \notin HostIds THEN "Invalid host"
    ELSE IF ~host_ok THEN "host unavailable"
    ELSE IF devices # <<>> /\ cfg.device_name = None THEN "Device name not specified"
    ELSE IF \A i \in DOMAIN devices : devices[i] # unwrap(cfg.device_name)
         THEN "Couldn't find device"
    ELSE IF cfg.buffer_size = None THEN "Buffer size not specified"
    ELSE IF cfg.num_channels = None THEN "Number of channels not specified"
    ELSE IF cfg.sample_rate = None THEN "Sample rate not specified"
    ELSE IF cfg.format = None THEN "Sample format not specifed"
    ELSE IF to_lowercase(unwrap(cfg.format)) \notin SampleFormats
         THEN "Invalid sample format"
    ELSE IF open_ok THEN "" ELSE "try_from_device_config failed"

BuildStream ==
    /\ pc = "stream"
    /\ \E host_ok \in BOOLEAN, devices \in DeviceLists, open_ok \in BOOLEAN :
         LET err == OutputStreamError(config, host_ok, devices, open_ok) IN
         IF err = ""
         THEN /\ stream_handle' = (IF config.use_default THEN "default" ELSE "device")
              /\ pc' = "load"
              /\ UNCHANGED output
         ELSE /\ pc' = "panicked"
              /\ output' = Append(output, err)
              /\ UNCHANGED stream_handle
    /\ UNCHANGED <<config, pools, key_states, delivered, dispatched, requests, sound,
                   listen_state_lock, steps>>

\* get_buffered_sounds_from_directory: one buffer per *.wav file found.
get_buffered_sounds_from_directory(directory, files) ==
    [i \in 1..files |-> <<directory, i>>]

LoadSounds ==
    /\ pc = "load"
    /\ \E nkd \in 0..MaxPool, nku \in 0..MaxPool, nmd \in 0..MaxPool,
          nmu \in 0..MaxPool, decode_ok \in BOOLEAN :
         \* File::open(..).unwrap() / Decoder::new(..).unwrap() can only fail on a file
         /\ decode_ok \/ nkd + nku + nmd + nmu > 0
         /\ IF decode_ok
            THEN /\ key_down_sounds' = get_buffered_sounds_from_directory("keydown", nkd)
                 /\ key_up_sounds' = get_buffered_sounds_from_directory("keyup", nku)
                 /\ mouse_down_sounds' = get_buffered_sounds_from_directory("mousedown", nmd)
                 /\ mouse_up_sounds' = get_buffered_sounds_from_directory("mouseup", nmu)
                 /\ pc' = "check"
                 /\ UNCHANGED output
            ELSE /\ pc' = "panicked"
                 /\ output' = Append(output, "sound file unreadable")
                 /\ UNCHANGED pools
    /\ UNCHANGED <<config, stream_handle, key_states, delivered, dispatched, requests,
                   sound, listen_state_lock, steps>>

\* EmptyFolder without the last of the four checks.
EmptyFolder_NoMouseUpCheck(kd, ku, md, mu) ==
    IF kd = <<>> THEN "keydown"
    ELSE IF ku = <<>> THEN "keyup"
    ELSE IF md = <<>> THEN "mousedown"
    ELSE ""

\* The folder whose emptiness makes main() return, "" when all four have sounds.
EmptyFolder(kd, ku, md, mu) ==
    IF kd = <<>> THEN "keydown"
    ELSE IF ku = <<>> THEN "keyup"
    ELSE IF md = <<>> THEN "mousedown"
    ELSE IF mu = <<>> THEN "mouseup"
    ELSE ""

NoSoundsError(folder) ==
    CASE folder = "keydown" -> "No sounds in keydown folder"
      [] folder = "keyup" -> "No sounds in keyup folder"
      [] folder = "mousedown" -> "No sounds in mousedown folder"
      [] folder = "mouseup" -> "No sounds in mouseup folder"

CheckSounds ==
    /\ pc = "check"
    /\ LET empty == EmptyFolder(key_down_sounds, key_up_sounds,
                                mouse_down_sounds, mouse_up_sounds) IN
       IF empty # ""
       THEN /\ output' = Append(output, NoSoundsError(empty))
            /\ pc' = "exited"
            /\ UNCHANGED key_states
       ELSE /\ key_states' = new
            /\ pc' = "listening"
            /\ UNCHANGED output
    /\ listen_state_lock' = "free"
    /\ UNCHANGED <<config, stream_handle, pools, delivered, dispatched, requests, sound, steps>>

\* ------------------------------------------------------- dispatch engine

\* What a match arm of the callback decides: whether it plays, from which
\* pool, and the key state map it leaves when the play request is accepted.

\* KeyPressArm that plays on every press of a known key.
KeyPressArm_NoDebounce(ks, key) ==
    IF get_mut(ks, key) # None
    THEN [play |-> TRUE, pool |-> "keydown", states |-> [ks EXCEPT ![key] = TRUE]]
    ELSE [play |-> TRUE, pool |-> "keydown", states |-> insert(ks, key, TRUE)]

\* KeyPressArm that plays but forgets `*key_is_pressed = true`.
KeyPressArm_NoSet(ks, key) ==
    IF get_mut(ks, key) # None
    THEN IF ~unwrap(get_mut(ks, key))
         THEN [play |-> TRUE, pool |-> "keydown", states |-> ks]
         ELSE [play |-> FALSE, pool |-> "keydown", states |-> ks]
    ELSE [play |-> TRUE, pool |-> "keydown", states |-> insert(ks, key, TRUE)]

\* KeyPressArm that marks every other known key released when a key goes down.
KeyPressArm_Exclusive(ks, key) ==
    IF get_mut(ks, key) # None
    THEN IF ~unwrap(get_mut(ks, key))
         THEN [play |-> TRUE, pool |-> "keydown", states |-> [k \in DOMAIN ks |-> k = key]]
         ELSE [play |-> FALSE, pool |-> "keydown", states |-> ks]
    ELSE [play |-> TRUE, pool |-> "keydown",
          states |-> [k \in (DOMAIN ks) \cup {key} |-> k = key]]

\* KeyPress(key) arm
KeyPressArm(ks, key) ==
    IF get_mut(ks, key) # None
    THEN IF ~unwrap(get_mut(ks, key))
         THEN [play |-> TRUE, pool |-> "keydown", states |-> [ks EXCEPT ![key] = TRUE]]
         ELSE [play |-> FALSE, pool |-> "keydown", states |-> ks]
    ELSE [play |-> TRUE, pool |-> "keydown", states |-> insert(ks, key, TRUE)]

\* KeyReleaseArm that plays but forgets `*key_is_pressed = false`.
KeyReleaseArm_NoReset(ks, key) ==
    IF get_mut(ks, key) # None
    THEN IF unwrap(get_mut(ks, key))
         THEN [play |-> TRUE, pool |-> "keyup", states |-> ks]
         ELSE [play |-> FALSE, pool |-> "keyup", states |-> ks]
    ELSE [play |-> TRUE, pool |-> "keyup", states |-> insert(ks, key, FALSE)]

\* KeyReleaseArm that plays on every release of a known key.
KeyReleaseArm_NoDebounce(ks, key) ==
    IF get_mut(ks, key) # None
    THEN [play |-> TRUE, pool |-> "keyup", states |-> [ks EXCEPT ![key] = FALSE]]
    ELSE [play |-> TRUE, pool |-> "keyup", states |-> insert(ks, key, FALSE)]

\* KeyReleaseArm that marks every known key released.
KeyReleaseArm_ReleaseAll(ks, key) ==
    IF get_mut(ks, key) # None
    THEN IF unwrap(get_mut(ks, key))
         THEN [play |-> TRUE, pool |-> "keyup", states |-> [k \in DOMAIN ks |-> FALSE]]
         ELSE [play |-> FALSE, pool |-> "keyup", states |-> ks]
    ELSE [play |-> TRUE, pool |-> "keyup", states |-> insert(ks, key, FALSE)]

\* KeyReleaseArm whose first sighting inserts the key as pressed.
KeyReleaseArm_InsertsPressed(ks, key) ==
    IF get_mut(ks, key) # None
    THEN IF unwrap(get_mut(ks, key))
         THEN [play |-> TRUE, pool |-> "keyup", states |-> [ks EXCEPT ![key] = FALSE]]
         ELSE [play |-> FALSE, pool |-> "keyup", states |-> ks]
    ELSE [play |-> TRUE, pool |-> "keyup", states |-> insert(ks, key, TRUE)]

\* EventType::KeyRelease(key) arm
KeyReleaseArm(ks, key) ==
    IF get_mut(ks, key) # None
    THEN IF unwrap(get_mut(ks, key))
         THEN [play |-> TRUE, pool |-> "keyup", states |-> [ks EXCEPT ![key] = FALSE]]
         ELSE [play |-> FALSE, pool |-> "keyup", states |-> ks]
    ELSE [play |-> TRUE, pool |-> "keyup", states |-> insert(ks, key, FALSE)]

\* ButtonPressArm that debounces buttons through the key state map.
ButtonPressArm_Debounced(ks, button) ==
    IF get_mut(ks, button) = Some(TRUE)
    THEN [play |-> FALSE, pool |-> "mousedown", states |-> ks]
    ELSE [play |-> TRUE, pool |-> "mousedown", states |-> insert(ks, button, TRUE)]

\* EventType::ButtonPress(button) arm
ButtonPressArm(ks, button) ==
    [play |-> TRUE, pool |-> "mousedown", states |-> ks]

\* ButtonReleaseArm that draws from the mouse-down pool.
ButtonReleaseArm_WrongPool(ks, button) ==
    [play |-> TRUE, pool |-> "mousedown", states |-> ks]

\* ButtonReleaseArm that records the button as released in the key state map.
ButtonReleaseArm_Tracked(ks, button) ==
    [play |-> TRUE, pool |-> "mouseup", states |-> insert(ks, button, FALSE)]

\* EventType::ButtonRelease(button) arm
ButtonReleaseArm(ks, button) ==
    [play |-> TRUE, pool |-> "mouseup", states |-> ks]

\* OtherArm that clicks on every event it does not know.
OtherArm_Plays(ks, kind) ==
    [play |-> TRUE, pool |-> "mousedown", states |-> ks]

\* _ => {} arm
OtherArm(ks, kind) ==
    [play |-> FALSE, pool |-> "none", states |-> ks]

Pool(name) ==
    CASE name = "keydown" -> key_down_sounds
      [] name = "keyup" -> key_up_sounds
      [] name = "mousedown" -> mouse_down_sounds
      [] name = "mouseup" -> mouse_up_sounds
      [] OTHER -> <<>>

IsKeyEvent(type) == type \in {"KeyPress", "KeyRelease"}

\* Dispatch that skips an event equal to the one before it.
Dispatch_SkipRepeat(log, event, ks) ==
    IF log # <<>> /\ log[Len(log)].type = event.type /\ log[Len(log)].id = event.id
    THEN log
    ELSE Append(log, [type |-> event.type, id |-> event.id,
                      entry |-> IF IsKeyEvent(event.type) THEN get_mut(ks, event.id) ELSE None])

\* The callback reaches `match event.event_type`: the event and, for a key
\* event, the entry that get_mut finds are recorded.
Dispatch(log, event, ks) ==
    Append(log, [type |-> event.type, id |-> event.id,
                 entry |-> IF IsKeyEvent(event.type) THEN get_mut(ks, event.id) ELSE None])

\* CallbackSteps with the guard dropped right after the state inspection.
CallbackSteps_EarlyUnlock(event, arm, ks, ok) ==
    <<"lock">>
    \o (IF IsKeyEvent(event.type) THEN <<"get_mut">> ELSE <<>>)
    \o <<"unlock">>
    \o (IF arm.play
        THEN <<"choose", "play_raw">>
             \o (IF ok
                 THEN (IF arm.states # ks THEN <<"write">> ELSE <<>>)
                 ELSE <<"panic">>)
        ELSE <<>>)

\* The operations of one callback invocation, in program order: the lock is
\* taken first, the guard is dropped when the closure returns, and a rejected
\* play request panics in unwrap() before the write and the return.
CallbackSteps(event, arm, ks, ok) ==
    <<"lock">>
    \o (IF IsKeyEvent(event.type) THEN <<"get_mut">> ELSE <<>>)
    \o (IF arm.play
        THEN <<"choose", "play_raw">>
             \o (IF ok
                 THEN (IF arm.states # ks THEN <<"write">> ELSE <<>>) \o <<"unlock">>
                 ELSE <<"panic">>)
        ELSE <<"unlock">>)

\* One invocation of the closure passed to listen.  The sample is drawn and
\* play_raw(..).unwrap() runs before the key state is written, so a rejected
\* play request panics with the map as it was.
Callback(event, arm) ==
    /\ pc = "listening"
    \* listen_state_copy.lock().unwrap()
    /\ listen_state_lock = "free"
    /\ Len(delivered) < MaxEvents
    /\ delivered' = Append(delivered, event)
    /\ dispatched' = Dispatch(dispatched, event, key_states)
    /\ IF arm.play
       THEN \E i \in 1..Len(Pool(arm.pool)), ok \in BOOLEAN :
              /\ sound' = Pool(arm.pool)[i]
              /\ requests' = Append(requests, [pool |-> arm.pool,
                                               ev |-> Len(delivered) + 1,
                                               ok |-> ok])
              /\ steps' = CallbackSteps(event, arm, key_states, ok)
              /\ IF ok
                 THEN /\ key_states' = arm.states
                      /\ listen_state_lock' = "free"
                      /\ UNCHANGED <<pc, output>>
                 ELSE /\ pc' = "panicked"
                      /\ output' = Append(output, "play_raw failed")
                      \* the guard is dropped while unwinding (poisoning the
                      \* mutex) or the process aborts with the lock held
                      /\ listen_state_lock' \in {"poisoned", "held"}
                      /\ UNCHANGED key_states
       ELSE /\ key_states' = arm.states
            /\ steps' = CallbackSteps(event, arm, key_states, TRUE)
            /\ listen_state_lock' = "free"
            /\ UNCHANGED <<pc, output, sound, requests>>
    /\ UNCHANGED <<config, stream_handle, pools>>

KeyPressEvent(key) ==
    Callback([type |-> "KeyPress", id |-> key], KeyPressArm(key_states, key))

KeyReleaseEvent(key) ==
    Callback([type |-> "KeyRelease", id |-> key], KeyReleaseArm(key_states, key))

ButtonPressEvent(button) ==
    Callback([type |-> "ButtonPress", id |-> button], ButtonPressArm(key_states, button))

ButtonReleaseEvent(button) ==
    Callback([type |-> "ButtonRelease", id |-> button], ButtonReleaseArm(key_states, button))

OtherEvent(kind) ==
    Callback([type |-> kind, id |-> "none"], OtherArm(key_states, kind))

\* ListenError that prints the error in the callback path and again in main.
ListenError_ReportsTwice ==
    /\ pc = "listening"
    /\ pc' = "done"
    /\ output' = Append(Append(output, "Error: listen"), "Error: listen")
    /\ UNCHANGED <<config, stream_handle, pools, key_states, delivered,
                   dispatched, requests, sound, listen_state_lock, steps>>

\* listen(..) returns Err(error): println!("Error: {:?}", error) and main ends.
ListenError ==
    /\ pc = "listening"
    /\ pc' = "done"
    /\ output' = Append(output, "Error: listen")
    /\ UNCHANGED <<config, stream_handle, pools, key_states, delivered,
                   dispatched, requests, sound, listen_state_lock, steps>>

Next ==
    \/ BuildStream
    \/ LoadSounds
    \/ CheckSounds
    \/ \E key \in Keys : KeyPressEvent(key)
    \/ \E key \in Keys : KeyReleaseEvent(key)
    \/ \E button \in Buttons : ButtonPressEvent(button)
    \/ \E button \in Buttons : ButtonReleaseEvent(button)
    \/ \E kind \in OtherKinds : OtherEvent(kind)
    \/ ListenError

Spec == Init /\ [][Next]_vars

TypeOK ==
    /\ pc \in {"stream", "load", "check", "exited", "listening", "panicked", "done"}
    /\ DOMAIN key_states \subseteq Keys
    /\ Len(delivered) <= MaxEvents

\* ------------------------------------------------------ history helpers

\* The play requests that the dispatch of the i-th event issued.
RequestsOf(i) == {r \in DOMAIN requests : requests[r].ev = i}

TotalPlays(i) == Cardinality(RequestsOf(i))

PlaysOf(i, pool) ==
    Cardinality({r \in DOMAIN requests : requests[r].ev = i /\ requests[r].pool = pool})

IsKey(i, type, key) == dispatched[i].type = type /\ dispatched[i].id = key

\* The key events for key among the first j dispatched events.
KeyEventsOf(key, j) ==
    {i \in 1..j : IsKeyEvent(dispatched[i].type) /\ dispatched[i].id = key}

Last(S) == CHOOSE m \in S : \A n \in S : n <= m

\* The key events for key among the first j strictly alternate, press first.
Alternates(key, j) ==
    LET seen == KeyEventsOf(key, j) IN
    \A a \in seen :
        /\ (\A b \in seen : a <= b) => dispatched[a].type = "KeyPress"
        /\ \A b \in seen :
              (a < b /\ \A c \in seen : ~(a < c /\ c < b))
              => dispatched[a].type # dispatched[b].type

\* This step is the dispatch of one event of the given type and id.
IsDispatchOf(type, id) ==
    /\ Len(delivered') = Len(delivered) + 1
    /\ delivered'[Len(delivered')] = [type |-> type, id |-> id]

\* The keys whose entry (or absence) differs between two key state maps.
Changed(before, after) ==
    {k \in (DOMAIN before) \cup (DOMAIN after) : get_mut(before, k) # get_mut(after, k)}

AnyPoolEmpty ==
    \/ key_down_sounds = <<>>
    \/ key_up_sounds = <<>>
    \/ mouse_down_sounds = <<>>
    \/ mouse_up_sounds = <<>>

\* ----------------------------------------------------------------- claims

\* C1: for a key found Unknown or Released, a run of KeyPress events for it
\* with no KeyRelease of it in between issues exactly one key-down play
\* request, at the first press, and none at the repeats.
C1_RepeatedPressPlaysOnce ==
    \A i \in DOMAIN dispatched :
        ( /\ dispatched[i].type = "KeyPress"
          /\ dispatched[i].entry \in {None, Some(FALSE)} )
        => /\ TotalPlays(i) = 1
           /\ PlaysOf(i, "keydown") = 1
           /\ \A j \in (i+1)..Len(dispatched) :
                 ( /\ IsKey(j, "KeyPress", dispatched[i].id)
                   /\ \A m \in i..j : ~IsKey(m, "KeyRelease", dispatched[i].id) )
                 => TotalPlays(j) = 0

\* A released key is pressed three times in a row: one play, then silence.
C1_Witness ==
    \E k \in Keys : \E i \in DOMAIN dispatched :
        /\ i + 2 <= Len(dispatched)
        /\ dispatched[i].entry = Some(FALSE)
        /\ \A m \in i..(i+2) : IsKey(m, "KeyPress", k)
        /\ TotalPlays(i) = 1
        /\ TotalPlays(i+1) = 0
        /\ TotalPlays(i+2) = 0

\* C2: a play request that the output sink rejects does not crash or halt
\* the dispatch loop; the loop keeps dispatching the events that follow.
C2_RejectedPlayKeepsListening ==
    \A r \in DOMAIN requests : ~requests[r].ok => pc \in {"listening", "done"}

\* C3: a KeyPress for k issues exactly one key-down play request when k was
\* Unknown or Released and none when it was Pressed, and in every case k is
\* recorded as Pressed after the event.
C3_KeyPressEdgeAndState ==
    LET n == Len(dispatched) IN
    (n > 0 /\ dispatched[n].type = "KeyPress")
    => /\ TotalPlays(n) = (IF dispatched[n].entry = Some(TRUE) THEN 0 ELSE 1)
       /\ PlaysOf(n, "keydown") = TotalPlays(n)
       /\ get_mut(key_states, dispatched[n].id) = Some(TRUE)

\* C4: while the key events of a key never seen before strictly alternate
\* press, release, press, ..., each of them issues exactly one play request,
\* key-down for a press and key-up for a release.
C4_AlternatingAlwaysPlays ==
    \A i \in DOMAIN dispatched :
        (IsKeyEvent(dispatched[i].type) /\ Alternates(dispatched[i].id, i))
        => /\ TotalPlays(i) = 1
           /\ PlaysOf(i, IF dispatched[i].type = "KeyPress" THEN "keydown" ELSE "keyup") = 1

\* press, release, press, release of one key, four play requests.
C4_Witness ==
    \E k \in Keys :
        /\ Len(dispatched) >= 4
        /\ Alternates(k, Len(dispatched))
        /\ Cardinality(KeyEventsOf(k, Len(dispatched))) >= 4
        /\ \A i \in KeyEventsOf(k, Len(dispatched)) : TotalPlays(i) = 1

\* C5: a KeyRelease for a key with no entry issues exactly one key-up play
\* request and inserts the key as Released.
C5_FirstReleasePlaysAndInserts ==
    LET n == Len(dispatched) IN
    (n > 0 /\ dispatched[n].type = "KeyRelease" /\ dispatched[n].entry = None)
    => /\ TotalPlays(n) = 1
       /\ PlaysOf(n, "keyup") = 1
       /\ get_mut(key_states, dispatched[n].id) = Some(FALSE)

\* C6: a KeyRelease for a key recorded as Released issues no play request
\* and leaves the whole key state map as it was.
C6_ReleaseOfReleasedIsNoOp ==
    [][ \A k \in Keys :
          (IsDispatchOf("KeyRelease", k) /\ get_mut(key_states, k) = Some(FALSE))
          => (requests' = requests /\ key_states' = key_states) ]_vars

\* A key recorded as Released was released again, without a play request.
C6_Witness ==
    LET n == Len(dispatched) IN
    /\ n > 0
    /\ dispatched[n].type = "KeyRelease"
    /\ dispatched[n].entry = Some(FALSE)
    /\ TotalPlays(n) = 0
    /\ get_mut(key_states, dispatched[n].id) = Some(FALSE)

\* C7: every ButtonPress issues exactly one mouse-down play request and every
\* ButtonRelease exactly one mouse-up play request, whatever came before.
C7_ButtonsAlwaysPlay ==
    \A i \in DOMAIN dispatched :
        /\ dispatched[i].type = "ButtonPress"
           => (TotalPlays(i) = 1 /\ PlaysOf(i, "mousedown") = 1)
        /\ dispatched[i].type = "ButtonRelease"
           => (TotalPlays(i) = 1 /\ PlaysOf(i, "mouseup") = 1)

\* Three presses of one button with no release, three mouse-down requests.
C7_Witness ==
    \E b \in Buttons : \E i \in DOMAIN dispatched :
        /\ i + 2 <= Len(dispatched)
        /\ \A m \in i..(i+2) : IsKey(m, "ButtonPress", b) /\ PlaysOf(m, "mousedown") = 1

\* C8: a step dispatches at most one event, changes the entry of at most one
\* key of the key state map and issues at most one play request.
C8_AtMostOneOfEach ==
    [][ /\ Len(delivered') <= Len(delivered) + 1
        /\ Len(requests') <= Len(requests) + 1
        /\ (Len(requests') > Len(requests) => Len(delivered') = Len(delivered) + 1)
        /\ Cardinality(Changed(key_states, key_states')) <= 1 ]_vars

\* With another key already held, a dispatch both played and changed one entry.
C8_Witness ==
    LET n == Len(dispatched) IN
    /\ n > 1
    /\ IsKeyEvent(dispatched[n].type)
    /\ TotalPlays(n) = 1
    /\ get_mut(key_states, dispatched[n].id) # dispatched[n].entry
    /\ \E k \in DOMAIN key_states : k # dispatched[n].id /\ key_states[k]

\* C9: the callback's dispatches are the listener's deliveries, one for one
\* and in the same order.
C9_DispatchedInDeliveryOrder ==
    /\ Len(dispatched) = Len(delivered)
    /\ \A i \in DOMAIN dispatched :
          /\ dispatched[i].type = delivered[i].type
          /\ dispatched[i].id = delivered[i].id

\* The same event was delivered twice in a row, then a different one.
C9_Witness ==
    /\ Len(delivered) >= 3
    /\ delivered[1] = delivered[2]
    /\ delivered[3] # delivered[2]
    /\ Len(dispatched) = 3

\* C10: with an empty sample pool the listener is never started: no event is
\* delivered or dispatched and no play request is issued.
C10_EmptyPoolNeverListens ==
    AnyPoolEmpty
    => /\ pc \notin {"listening", "done"}
       /\ delivered = <<>>
       /\ dispatched = <<>>
       /\ requests = <<>>
       /\ (pc \notin {"stream", "load", "check", "panicked"}
             => pc = "exited" /\ output # <<>>)

\* Only the mouseup folder was empty and main() returned.
C10_Witness ==
    /\ pc = "exited"
    /\ key_down_sounds # <<>>
    /\ key_up_sounds # <<>>
    /\ mouse_down_sounds # <<>>
    /\ mouse_up_sounds = <<>>

\* The defects of an explicit device configuration, by the message that names them.
ConfigDefects(cfg) ==
    {m \in {"Host not specified", "Invalid host", "Device name not specified",
            "Buffer size not specified", "Number of channels not specified",
            "Sample rate not specified", "Sample format not specifed",
            "Invalid sample format"} :
        \/ m = "Host not specified" /\ cfg.host = None
        \/ m = "Invalid host" /\ cfg.host # None /\ to_lowercase(unwrap(cfg.host)) \notin HostIds
        \/ m = "Device name not specified" /\ cfg.device_name = None
        \/ m = "Buffer size not specified" /\ cfg.buffer_size = None
        \/ m = "Number of channels not specified" /\ cfg.num_channels = None
        \/ m = "Sample rate not specified" /\ cfg.sample_rate = None
        \/ m = "Sample format not specifed" /\ cfg.format = None
        \/ m = "Invalid sample format" /\ cfg.format # None
              /\ to_lowercase(unwrap(cfg.format)) \notin SampleFormats}

\* Failures of the audio host that come before a defect is looked at.
HostFailures == {"host unavailable", "Couldn't find device"}

\* C11: with use_default = false and a missing field or an unrecognized host
\* or format string, main() never gets past the output stream construction:
\* it panics there with one message, which names a defect of the configuration
\* (or the host / device lookup that failed first), and no event is dispatched.
C11_DefectiveConfigFailsAtStartup ==
    (~config.use_default /\ ConfigDefects(config) # {})
    => /\ pc \in {"stream", "panicked"}
       /\ stream_handle = "none"
       /\ delivered = <<>>
       /\ dispatched = <<>>
       /\ requests = <<>>
       /\ (pc = "panicked"
             => /\ Len(output) = 1
                /\ output[1] \in ConfigDefects(config) \cup HostFailures)

\* An unrecognized format string stopped startup with the message that names it.
C11_Witness ==
    /\ ~config.use_default
    /\ ConfigDefects(config) = {"Invalid sample format"}
    /\ pc = "panicked"
    /\ output = <<"Invalid sample format">>

\* C12: an event that is none of KeyPress, KeyRelease, ButtonPress and
\* ButtonRelease is ignored: no play request, the key state map as it was,
\* nothing written and main() still listening.
C12_OtherEventsIgnored ==
    [][ \A kind \in OtherKinds :
          IsDispatchOf(kind, "none")
          => /\ requests' = requests
             /\ key_states' = key_states
             /\ sound' = sound
             /\ output' = output
             /\ pc' = pc ]_vars

\* A mouse move was dispatched while a key was held: no request, map kept.
C12_Witness ==
    LET n == Len(dispatched) IN
    /\ n > 1
    /\ dispatched[n].type \in OtherKinds
    /\ TotalPlays(n) = 0
    /\ \E k \in DOMAIN key_states : key_states[k]
    /\ requests # <<>>

\* The positions of an operation in the latest callback invocation.
StepsOf(op) == {i \in DOMAIN steps : steps[i] = op}

\* C13: every dispatch takes the key-state lock first, once, and holds it
\* through state inspection, sample selection, the play request and the
\* write; a dispatch that returns has dropped the guard as its last
\* operation, so the lock is free whenever main() is listening for the next
\* event, and it is never found held by a dispatch that could overlap another.
C13_LockAroundWholeDispatch ==
    /\ (dispatched # <<>> => steps # <<>>)
    /\ (pc = "listening" => listen_state_lock = "free")
    /\ (listen_state_lock # "free" => pc = "panicked")
    /\ (steps # <<>>
          => /\ steps[1] = "lock"
             /\ StepsOf("lock") = {1}
             /\ \A i \in DOMAIN steps :
                   steps[i] \in {"get_mut", "choose", "play_raw", "write"}
                   => \A u \in StepsOf("unlock") : i < u
             /\ StepsOf("unlock") \subseteq {Len(steps)}
             /\ (steps[Len(steps)] = "unlock" => listen_state_lock = "free")
             /\ (steps[Len(steps)] # "unlock"
                   => steps[Len(steps)] = "panic" /\ pc = "panicked"))

\* A dispatch inspected, drew, played and wrote between lock and unlock.
C13_Witness ==
    /\ Len(dispatched) >= 2
    /\ steps = <<"lock", "get_mut", "choose", "play_raw", "write", "unlock">>
    /\ listen_state_lock = "free"
    /\ pc = "listening"

\* C14: when listen returns an error, main() prints it once and ends: the
\* step that ends main() comes from listening, adds exactly that one message
\* and dispatches nothing, and nothing happens after it.
C14_ListenErrorHaltsAndReportsOnce ==
    [][ /\ pc # "done"
        /\ (pc' = "done"
              => /\ pc = "listening"
                 /\ output' = Append(output, "Error: listen")
                 /\ delivered' = delivered
                 /\ dispatched' = dispatched
                 /\ requests' = requests
                 /\ key_states' = key_states) ]_vars

\* The listener failed after two events had been dispatched.
C14_Witness ==
    /\ pc = "done"
    /\ Len(dispatched) >= 2
    /\ output = <<"Error: listen">>

\* This step is the dispatch of a key event for key.
IsKeyDispatchOf(key) ==
    IsDispatchOf("KeyPress", key) \/ IsDispatchOf("KeyRelease", key)

\* C15: the key state map is empty when the first event is dispatched, a key
\* has an entry once a KeyPress or KeyRelease for it has been dispatched, and
\* no step removes an entry.
C15_EntriesInsertedLazilyNeverRemoved ==
    [][ /\ (Len(delivered') = Len(delivered) + 1 /\ delivered = <<>>
              => key_states = new)
        /\ \A k \in Keys : IsKeyDispatchOf(k) => k \in DOMAIN key_states'
        /\ DOMAIN key_states \subseteq DOMAIN key_states' ]_vars

\* C16: a ButtonPress or ButtonRelease neither reads nor writes the key state
\* map: the map after the event is the map before it, the callback did no
\* get_mut and no write, and no button has an entry.
C16_ButtonsLeaveKeyStates ==
    [][ \A b \in Buttons :
          (IsDispatchOf("ButtonPress", b) \/ IsDispatchOf("ButtonRelease", b))
          => /\ key_states' = key_states
             /\ StepsOf("get_mut")' = {}
             /\ StepsOf("write")' = {}
             /\ DOMAIN key_states' \cap Buttons = {} ]_vars

\* A button was released while one key was held and another was released.
C16_Witness ==
    LET n == Len(dispatched) IN
    /\ n >= 3
    /\ dispatched[n].type = "ButtonRelease"
    /\ TotalPlays(n) = 1
    /\ \E k \in DOMAIN key_states : key_states[k]
    /\ \E k \in DOMAIN key_states : ~key_states[k]

\* The category and the pool that belong to an event type.
CategoryOf(type) ==
    CASE type = "KeyPress" -> "keydown"
      [] type = "KeyRelease" -> "keyup"
      [] type = "ButtonPress" -> "mousedown"
      [] type = "ButtonRelease" -> "mouseup"
      [] OTHER -> "none"

PoolOf(type) ==
    CASE type = "KeyPress" -> key_down_sounds
      [] type = "KeyRelease" -> key_up_sounds
      [] type = "ButtonPress" -> mouse_down_sounds
      [] type = "ButtonRelease" -> mouse_up_sounds
      [] OTHER -> <<>>

\* C17: every play request is issued for the event being dispatched, with a
\* buffer that is a member of the pool of that event's kind (key-down for
\* KeyPress, key-up for KeyRelease, mouse-down for ButtonPress, mouse-up for
\* ButtonRelease), and no dispatch changes any of the four pools.
C17_BufferFromMatchingPool ==
    [][ /\ (pc = "listening" => pools' = pools)
        /\ (Len(requests') > Len(requests)
              => LET e == delivered'[Len(delivered')]
                     r == requests'[Len(requests')]
                 IN /\ Len(delivered') = Len(delivered) + 1
                    /\ r.ev = Len(delivered')
                    /\ CategoryOf(e.type) # "none"
                    /\ r.pool = CategoryOf(e.type)
                    /\ \E i \in DOMAIN PoolOf(e.type) : sound' = PoolOf(e.type)[i]) ]_vars

\* All four pools have been played from, the latest buffer from the mouse-up pool.
C17_Witness ==
    /\ {requests[r].pool : r \in DOMAIN requests} = {"keydown", "keyup", "mousedown", "mouseup"}
    /\ requests[Len(requests)].pool = "mouseup"
    /\ \E i \in DOMAIN mouse_up_sounds : sound = mouse_up_sounds[i]

\* The play requests caused by key events of key, as positions in requests.
KeyRequestsOf(key) ==
    {r \in DOMAIN requests :
        /\ IsKeyEvent(dispatched[requests[r].ev].type)
        /\ dispatched[requests[r].ev].id = key}

\* C18: for every key, the play requests caused by its events alternate in
\* kind: two of them with none of that key in between are one key-down and
\* one key-up.
C18_KeyRequestsAlternate ==
    \A k \in Keys :
        LET caused == KeyRequestsOf(k) IN
        \A r1 \in caused : \A r2 \in caused :
            (r1 < r2 /\ \A r \in caused : ~(r1 < r /\ r < r2))
            => /\ requests[r1].pool # requests[r2].pool
               /\ {requests[r1].pool, requests[r2].pool} = {"keydown", "keyup"}

\* One key played down, up, down while a request of the other key came in between.
C18_Witness ==
    \E k \in Keys : \E j \in Keys \ {k} :
        /\ Cardinality(KeyRequestsOf(k)) = 3
        /\ \E r \in KeyRequestsOf(j) : \E a \in KeyRequestsOf(k) : \E b \in KeyRequestsOf(k) :
              a < r /\ r < b
        /\ \E a \in KeyRequestsOf(k) : requests[a].pool = "keydown" /\ requests[a].ok
              /\ \A b \in KeyRequestsOf(k) : a <= b

\* Every play request so far was accepted by the output sink.
AllPlaysSucceeded == \A r \in DOMAIN requests : requests[r].ok

\* C19: when every play request has succeeded, each key with an entry has had
\* a key event, and its recorded value is Pressed exactly when the latest key
\* event for it is a KeyPress (and Released exactly when it is a KeyRelease).
C19_StateIsLatestKeyEvent ==
    AllPlaysSucceeded
    => \A k \in DOMAIN key_states :
          LET seen == KeyEventsOf(k, Len(dispatched)) IN
          /\ seen # {}
          /\ key_states[k] = (dispatched[Last(seen)].type = "KeyPress")
          /\ (~key_states[k]) = (dispatched[Last(seen)].type = "KeyRelease")

\* Two keys, two events each: one ends Released, the other Pressed.
C19_Witness ==
    /\ AllPlaysSucceeded
    /\ DOMAIN key_states = Keys
    /\ \E k \in Keys : key_states[k]
    /\ \E k \in Keys : ~key_states[k]
    /\ \A k \in Keys : Cardinality(KeyEventsOf(k, Len(dispatched))) = 2

\* C20: the dispatch of a key event for k leaves the entry, or the absence,
\* of every other key as it was, and whether it plays is decided by the
\* earlier key events of k alone: it plays exactly when k has had no key
\* event yet or its latest one was of the other type.
C20_KeysAreIndependent ==
    [][ \A k \in Keys :
          IsKeyDispatchOf(k)
          => /\ \A j \in Keys \ {k} : get_mut(key_states', j) = get_mut(key_states, j)
             /\ LET seen == KeyEventsOf(k, Len(dispatched))
                    type == delivered'[Len(delivered')].type
                IN (Len(requests') > Len(requests))
                   <=> (seen = {} \/ dispatched[Last(seen)].type # type) ]_vars

\* B is pressed while A is held: B plays its key-down and A stays Pressed.
C20_Witness ==
    \E a \in Keys : \E b \in Keys \ {a} :
        /\ Len(dispatched) >= 3
        /\ IsKey(1, "KeyPress", a)
        /\ dispatched[2].type = "ButtonPress"
        /\ IsKey(3, "KeyPress", b)
        /\ dispatched[3].entry = None
        /\ PlaysOf(3, "keydown") = 1
        /\ get_mut(key_states, a) = Some(TRUE)

====
